---- MODULE Spec2Model ----
(***************************************************************************)
(* Model of the sales-forecasting repository: the synthetic series         *)
(* generator (src/app.py generate_time_series_data, src/dataset_generator  *)
(* .py generate_sales_data), the forecaster (src/app.py perform_forecast)  *)
(* and the two Flask routes that call them (generate_dataset, forecast).   *)
(*                                                                         *)
(* Numbers: every float of the program is a fixed-point integer in         *)
(* thousandths (Fixed(1) = 1000), so that rounding to two decimals and the *)
(* floor at 0 are real operations.  Dates are records [y, m, d].           *)
(* The process-global numpy random state is the integer variable rng; a    *)
(* draw advances it (NextRng) and every distribution is a function of the  *)
(* drawn state.                                                            *)
(***************************************************************************)
EXTENDS Integers, Sequences, FiniteSets, TLC

VARIABLES
    rng,    \* state of the process-global np.random generator
    fs,     \* the files: path -> NoFile or the table written by to_csv
    call,   \* the function call under way (function-level specifications)
    ret,    \* what that call returned or raised
    pc,     \* per web request slot: position of its handler
    local,  \* per web request slot: the handler's local variables
    resp,   \* per web request slot: the JSON response last sent
    nreq,   \* number of web requests accepted so far
    saved   \* history variable: per slot, the file its latest generate request saved

vars == <<rng, fs, call, ret, pc, local, resp, nreq, saved>>

webvars == <<pc, local, resp, nreq, saved>>

----------------------------------------------------------------------------
(* Bounds of the model *)

MaxPeriods == 40
MaxSeed == 7
MaxHorizon == 4
MaxRequests == 3

----------------------------------------------------------------------------
(* Fixed-point numbers *)

Fixed(x) == x * 1000

Max(a, b) == IF a >= b THEN a ELSE b

Abs(x) == IF x < 0 THEN -x ELSE x

\* np.maximum(arr, 0)
FloorAtZero(arr) == [i \in DOMAIN arr |-> Max(arr[i], 0)]

\* Series.round(2): to the nearest hundredth, halves to even
Round2(v) ==
    LET q == v \div 10
        r == v % 10
    IN  IF r < 5 THEN q * 10
        ELSE IF r > 5 THEN (q + 1) * 10
        ELSE IF q % 2 = 0 THEN q * 10 ELSE (q + 1) * 10

----------------------------------------------------------------------------
(* The calendar behind pd.date_range, .dayofweek, .day, .daysinmonth, .month *)

Date(y, m, d) == [y |-> y, m |-> m, d |-> d]

IsLeap(y) == (y % 4 = 0 /\ y % 100 # 0) \/ y % 400 = 0

DaysInMonth(y, m) ==
    IF m \in {1, 3, 5, 7, 8, 10, 12} THEN 31
    ELSE IF m \in {4, 6, 9, 11} THEN 30
    ELSE IF IsLeap(y) THEN 29 ELSE 28

\* whether pandas can parse the start_date string into a calendar day
ValidDate(dt) ==
    /\ dt.m \in 1..12
    /\ dt.d >= 1
    /\ dt.d <= DaysInMonth(dt.y, dt.m)

\* Timestamp + timedelta(days=1), and the step of a daily date_range
NextDay(dt) ==
    IF dt.d < DaysInMonth(dt.y, dt.m) THEN Date(dt.y, dt.m, dt.d + 1)
    ELSE IF dt.m < 12 THEN Date(dt.y, dt.m + 1, 1)
    ELSE Date(dt.y + 1, 1, 1)

RECURSIVE DateRangeFrom(_, _)
DateRangeFrom(start, periods) ==
    IF periods <= 0 THEN << >>
    ELSE <<start>> \o DateRangeFrom(NextDay(start), periods - 1)

\* pd.date_range(start=start, periods=periods): daily frequency
DateRange(start, periods) == DateRangeFrom(start, periods)

\* days since 1970-01-01 of a calendar day (the Timestamp's ordinal)
DaysFromCivil(dt) ==
    LET yy  == IF dt.m <= 2 THEN dt.y - 1 ELSE dt.y
        era == yy \div 400
        yoe == yy - era * 400
        mp  == IF dt.m > 2 THEN dt.m - 3 ELSE dt.m + 9
        doy == (153 * mp + 2) \div 5 + dt.d - 1
        doe == yoe * 365 + yoe \div 4 - yoe \div 100 + doy
    IN  era * 146097 + doe - 719468

\* DatetimeIndex.dayofweek: Monday = 0 ... Sunday = 6
DayOfWeek(dt) == (DaysFromCivil(dt) + 3) % 7

----------------------------------------------------------------------------
(* The global random source, np.random *)

\* one step of the generator
NextRng(s) == (5 * s + 3) % 64

RECURSIVE Stream(_, _)
\* the n generator states that n successive draws see, starting after s
Stream(s, n) ==
    IF n <= 0 THEN << >>
    ELSE <<NextRng(s)>> \o Stream(NextRng(s), n - 1)

RECURSIVE Advance(_, _)
Advance(s, n) == IF n <= 0 THEN s ELSE Advance(NextRng(s), n - 1)

\* a standard normal deviate (thousandths) from one draw
StdNormal(u) ==
    CASE u % 4 = 0 -> -3000
      [] u % 4 = 1 -> 417
      [] u % 4 = 2 -> -523
      [] OTHER     -> 1234

\* np.random.normal(0, scale, n): n deviates times scale (scale in thousandths)
Normal(scale, draws) ==
    [i \in DOMAIN draws |-> (StdNormal(draws[i]) * scale) \div 1000]

\* np.random.uniform(lo, hi) from one draw: lo + (hi - lo) * u, u in [0, 1)
Uniform(lo, hi, u) == lo + ((hi - lo) * u) \div 64

RECURSIVE Remove(_, _)
Remove(s, j) ==
    IF s = << >> THEN << >>
    ELSE IF j = 1 THEN Tail(s)
    ELSE <<Head(s)>> \o Remove(Tail(s), j - 1)

RECURSIVE Pick(_, _)
\* draws[j] selects one of the labels still in the pool, which then leaves it
Pick(pool, draws) ==
    IF draws = << >> \/ pool = << >> THEN << >>
    ELSE LET j == (Head(draws) % Len(pool)) + 1
         IN  <<pool[j]>> \o Pick(Remove(pool, j), Tail(draws))

\* np.random.choice(n, size=Len(draws), replace=False): labels 0..n-1
ChoiceNoReplace(n, draws) == Pick([i \in 1..n |-> i - 1], draws)

----------------------------------------------------------------------------
(* generate_time_series_data / generate_sales_data: the primary series *)

NoFile == [kind |-> "absent"]
NoCall == [fn |-> "none"]
NoRet  == [status |-> "none"]

\* an exception leaving a function; rng is the random state it leaves behind
Raised(exc, msg, s) == [status |-> "raised", exc |-> exc, message |-> msg, rng |-> s]

RECURSIVE SeqSum(_)
SeqSum(s) == IF s = << >> THEN 0 ELSE Head(s) + SeqSum(Tail(s))

\* np.linspace(100, 100 + 100 * trend_strength, periods)
Trend(periods, ts) ==
    [i \in 1..periods |->
        IF periods = 1 THEN Fixed(100)
        ELSE Fixed(100) + ((i - 1) * 100 * ts) \div (periods - 1)]

\* faulty variant of WeeklyBonus: the Saturday and Sunday values exchanged
WeeklyBonusWeekendSwapped(dt) ==
    CASE DayOfWeek(dt) = 5 -> Fixed(40)
      [] DayOfWeek(dt) = 6 -> Fixed(30)
      [] DayOfWeek(dt) = 4 -> Fixed(20)
      [] OTHER -> 0

\* seasonal[day_of_week == 5] = 30; [== 6] = 40; [== 4] = 20
WeeklyBonus(dt) ==
    CASE DayOfWeek(dt) = 5 -> Fixed(30)
      [] DayOfWeek(dt) = 6 -> Fixed(40)
      [] DayOfWeek(dt) = 4 -> Fixed(20)
      [] OTHER -> 0

\* 30 * (day_of_month / days_in_month)
MonthlyBonus(dt) == (Fixed(30) * dt.d) \div DaysInMonth(dt.y, dt.m)

\* seasonal[(month >= 6) & (month <= 8)] = 30; [(month >= 11) & (month <= 12)] = 40
YearlyBonus(dt) ==
    IF dt.m >= 11 /\ dt.m <= 12 THEN Fixed(40)
    ELSE IF dt.m >= 6 /\ dt.m <= 8 THEN Fixed(30)
    ELSE 0

\* the if / elif / else on seasonality: anything but weekly, monthly is yearly
Seasonal(dates, seasonality) ==
    [i \in DOMAIN dates |->
        IF seasonality = "weekly" THEN WeeklyBonus(dates[i])
        ELSE IF seasonality = "monthly" THEN MonthlyBonus(dates[i])
        ELSE YearlyBonus(dates[i])]

\* faulty variant of EventCount: size=round(periods * 0.05)
EventCountRounded(periods) ==
    LET q == (periods * 5) \div 100
        r == (periods * 5) % 100
    IN  IF r < 50 THEN q
        ELSE IF r > 50 THEN q + 1
        ELSE IF q % 2 = 0 THEN q ELSE q + 1

\* size=int(periods * 0.05): truncation toward zero
EventCount(periods) == (periods * 5) \div 100

\* df.loc[special_events, 'sales'] *= factors: row label e is position e + 1
ApplyEvents(sales, events, factors) ==
    [i \in DOMAIN sales |->
        IF \E j \in DOMAIN events : events[j] = i - 1
        THEN LET last == CHOOSE j \in DOMAIN events :
                            /\ events[j] = i - 1
                            /\ \A k \in DOMAIN events : events[k] = i - 1 => k <= j
             IN  (sales[i] * factors[last]) \div 1000
        ELSE sales[i]]

\* faulty variant of Compose: without the np.maximum(sales, 0)
ComposeNoFloor(trend, seasonal, noise) ==
    [i \in DOMAIN trend |-> trend[i] + seasonal[i] + noise[i]]

\* sales = trend + seasonal + noise; sales = np.maximum(sales, 0)
Compose(trend, seasonal, noise) ==
    FloorAtZero([i \in DOMAIN trend |-> trend[i] + seasonal[i] + noise[i]])

\* the exception the body raises before it draws anything, or "none"
GenError(cfg) ==
    IF ~ValidDate(cfg.start_date) THEN "day is out of range for month"
    ELSE IF cfg.periods < 0 THEN "Number of samples must be non-negative"
    ELSE IF cfg.noise_level < 0 THEN "scale < 0"
    ELSE "none"

\* the local variables of the shared body (src/app.py 90-129,
\* src/dataset_generator.py 34-76) for a configuration that raises nothing,
\* run with the random state s
GenFrame(cfg, s) ==
    LET p       == cfg.periods
        dates   == DateRange(cfg.start_date, p)
        trend   == Trend(p, cfg.trend_strength)
        seas    == Seasonal(dates, cfg.seasonality)
        noise   == Normal(cfg.noise_level * 100, Stream(s, p))
        s1      == Advance(s, p)
        sales   == Compose(trend, seas, noise)
        k       == EventCount(p)
        events  == ChoiceNoReplace(p, Stream(s1, k))
        s2      == Advance(s1, k)
        factors == [j \in 1..k |-> Uniform(1200, 1500, Stream(s2, k)[j])]
        s3      == Advance(s2, k)
    IN  [dates |-> dates, trend |-> trend, seasonal |-> seas, noise |-> noise,
         floored |-> sales, special_events |-> events, factors |-> factors,
         sales |-> ApplyEvents(sales, events, factors), rng |-> s3]

----------------------------------------------------------------------------
(* generate_sales_data: the product categories and the final rounding *)

Categories == <<"Electronics", "Clothing", "Food", "Home Goods">>

\* faulty variant of Category: the category as a share of the finished primary column
CategoryFromPrimary(f, nl, s) ==
    LET u1 == Uniform(600, 1400, NextRng(s))
    IN  [sales   |-> [i \in DOMAIN f.sales |-> Round2((f.sales[i] * u1) \div 1000)],
         trend_scale |-> u1, seasonal_scale |-> 1000,
         noise |-> [i \in DOMAIN f.sales |-> 0],
         rng |-> NextRng(s)]

\* faulty variant of Category: without the np.maximum(cat_sales, 0)
CategoryNoFloor(f, nl, s) ==
    LET p  == Len(f.trend)
        u1 == Uniform(600, 1400, NextRng(s))
        u2 == Uniform(800, 1200, NextRng(NextRng(s)))
        s2 == Advance(s, 2)
        cn == Normal(nl * 80, Stream(s2, p))
    IN  [sales |-> [i \in 1..p |->
                      Round2((f.trend[i] * u1) \div 1000
                             + (f.seasonal[i] * u2) \div 1000 + cn[i])],
         trend_scale |-> u1, seasonal_scale |-> u2, noise |-> cn,
         rng |-> Advance(s2, p)]

\* lines 82-89 for one category, drawn from the random state s: its scale
\* factors, its noise, its column and the random state it leaves
Category(f, nl, s) ==
    LET p  == Len(f.trend)
        u1 == Uniform(600, 1400, NextRng(s))
        u2 == Uniform(800, 1200, NextRng(NextRng(s)))
        s2 == Advance(s, 2)
        cn == Normal(nl * 80, Stream(s2, p))
        cs == FloorAtZero([i \in 1..p |->
                  (f.trend[i] * u1) \div 1000 + (f.seasonal[i] * u2) \div 1000 + cn[i]])
    IN  [sales |-> [i \in 1..p |-> Round2(cs[i])],
         trend_scale |-> u1, seasonal_scale |-> u2, noise |-> cn,
         rng |-> Advance(s2, p)]

RECURSIVE CategoryLoop(_, _, _, _)
\* for category in categories: the columns in order, each from the state the
\* previous one left
CategoryLoop(f, nl, s, n) ==
    IF n = 0 THEN << >>
    ELSE LET before == CategoryLoop(f, nl, s, n - 1)
             s0     == IF n = 1 THEN s ELSE before[n - 1].rng
         IN  Append(before, Category(f, nl, s0))

\* df['sales'] = df['sales'].round(2)
RoundColumn(col) == [i \in DOMAIN col |-> Round2(col[i])]

----------------------------------------------------------------------------
(* CSV files: df.to_csv(path, index=False) and pd.read_csv + pd.to_datetime *)

\* a date is written as the text YYYY-MM-DD: the three fields, no longer a day
DateText(dt) == <<dt.y, dt.m, dt.d>>

\* pd.to_datetime of that text
ParseDate(t) == Date(t[1], t[2], t[3])

\* every column is written; the date column as text
ToCsv(df) ==
    [kind |-> "csv"] @@ [df EXCEPT !.date = [i \in DOMAIN df.date |-> DateText(df.date[i])]]

\* df = pd.read_csv(file_path); df['date'] = pd.to_datetime(df['date']);
\* df.set_index('date')
ReadCsv(file) ==
    [date |-> [i \in DOMAIN file.date |-> ParseDate(file.date[i])],
     sales |-> file.sales]

Paths == {"sales_data.csv", "uploads/sales_data.csv"}

UploadPath == "uploads/sales_data.csv"

----------------------------------------------------------------------------
(* The generator functions as calls *)

\* generate_time_series_data(start_date, periods, seasonality, trend_strength,
\* noise_level) run with the random state s: what it returns or raises
GenerateTimeSeriesData(cfg, s) ==
    IF GenError(cfg) # "none"
    THEN Raised("ValueError", GenError(cfg), s)
    ELSE LET f == GenFrame(cfg, s)
         IN  [status |-> "returned",
              df |-> [date |-> f.dates, sales |-> f.sales],
              frame |-> f, rng |-> f.rng]

\* generate_sales_data(...): the same body, then the four categories, the
\* rounding of the sales column and the return of the table
GenerateSalesData(cfg, s) ==
    IF GenError(cfg) # "none"
    THEN Raised("ValueError", GenError(cfg), s)
    ELSE LET f    == GenFrame(cfg, s)
             cats == CategoryLoop(f, cfg.noise_level, f.rng, Len(Categories))
             s4   == IF cats = << >> THEN f.rng ELSE cats[Len(cats)].rng
         IN  [status |-> "returned",
              df |-> [date |-> f.dates, sales |-> RoundColumn(f.sales),
                      category |-> [c \in DOMAIN cats |-> cats[c].sales]],
              frame |-> f, cats |-> cats, rng |-> s4]

StartDates ==
    {Date(2023, 1, 1), Date(2024, 2, 20), Date(2023, 12, 20), Date(2023, 5, 25),
     Date(2023, 2, 30)}

PeriodChoices == {-1, 0, 1, 2, 14, 20, 30, MaxPeriods}

Seasonalities == {"weekly", "monthly", "yearly"}

\* thousandths: 0.5 and, outside the nominal [0, 1], -2.0
TrendStrengths == {500, -2000}

\* thousandths: 0, 1.0 and, outside the nominal [0, 1], -0.1
NoiseLevels == {0, 1000, -100}

Configs ==
    [start_date : StartDates, periods : PeriodChoices, seasonality : Seasonalities,
     trend_strength : TrendStrengths, noise_level : NoiseLevels]

Slots == {1, 2}

Idle == [s \in Slots |-> "idle"]
NoLocals == [s \in Slots |-> [op |-> "none"]]
NoResp == [s \in Slots |-> [status |-> "none"]]
NoLast == [s \in Slots |-> NoFile]

Init ==
    /\ rng \in 0..MaxSeed
    /\ fs = [p \in Paths |-> NoFile]
    /\ call \in [fn : {"generate_time_series_data", "generate_sales_data"},
                 cfg : Configs, output_file : {"sales_data.csv"}]
    /\ ret = NoRet
    /\ pc = Idle
    /\ local = NoLocals
    /\ resp = NoResp
    /\ nreq = 0
    /\ saved = NoLast

CallGenerateTimeSeriesData ==
    /\ call.fn = "generate_time_series_data"
    /\ ret = NoRet
    /\ ret' = GenerateTimeSeriesData(call.cfg, rng)
    /\ rng' = ret'.rng
    /\ UNCHANGED <<fs, call>>
    /\ UNCHANGED webvars

CallGenerateSalesData ==
    /\ call.fn = "generate_sales_data"
    /\ ret = NoRet
    /\ ret' = GenerateSalesData(call.cfg, rng)
    /\ rng' = ret'.rng
    /\ fs' = IF ret'.status = "returned"
             THEN [fs EXCEPT ![call.output_file] = ToCsv(ret'.df)]
             ELSE fs
    /\ UNCHANGED <<call>>
    /\ UNCHANGED webvars

Next ==
    \/ CallGenerateTimeSeriesData
    \/ CallGenerateSalesData

Spec == Init /\ [][Next]_vars

----------------------------------------------------------------------------
(* perform_forecast *)

\* seq[start:] of Python for a start that may be negative
SliceFrom(s, start) ==
    LET n    == Len(s)
        from == IF start < 0 THEN Max(n + start, 0)
                ELSE IF start > n THEN n ELSE start
    IN  SubSeq(s, from + 1, n)

\* faulty variant of IlocLast: df['sales'].iloc[:forecast_periods], the first values
IlocHead(s, h) == SubSeq(s, 1, IF h > Len(s) THEN Len(s) ELSE h)

\* df['sales'].iloc[-forecast_periods:]
IlocLast(s, h) == SliceFrom(s, -h)

\* faulty variant of ForecastDates: without the timedelta(days=1)
ForecastDatesNoOffset(last_date, h) == DateRange(last_date, h)

\* pd.date_range(start=last_date + timedelta(days=1), periods=forecast_periods)
ForecastDates(last_date, h) == DateRange(NextDay(last_date), h)

\* .mean() of an array: kept as the exact fraction sum / count
Mean(arr) == [num |-> SeqSum(arr), den |-> Len(arr)]

\* ARIMA(df['sales'], order=(5, 1, 0)).fit() and model_fit.forecast(steps=h) are
\* library code: the fit of a non-empty series either raises or yields a model,
\* whose forecast of h >= 1 steps is h values.  The values are any of: the last
\* value repeated, a rising line from it, the last h values again, those plus a
\* thousandth.
ArimaOutcomes(sales, h) ==
    LET n == Len(sales)
    IN  {[fit |-> "raise"]}
        \cup (IF n = 0 THEN {}
              ELSE IF h <= 0 THEN {[fit |-> "ok", forecast |-> << >>]}
              ELSE {[fit |-> "ok", forecast |-> [i \in 1..h |-> sales[n]]],
                    [fit |-> "ok", forecast |-> [i \in 1..h |-> sales[n] + 2500 * i]]}
                   \cup (IF n >= h
                         THEN {[fit |-> "ok",
                                forecast |-> [i \in 1..h |-> sales[n - h + i]]],
                               [fit |-> "ok",
                                forecast |-> [i \in 1..h |-> sales[n - h + i] + 1]]}
                         ELSE {}))

NoFrame == [reached |-> "fit"]

FcRaised(exc, msg, frame) ==
    [status |-> "raised", exc |-> exc, message |-> msg, frame |-> frame]

\* history_tail - forecast[:h]: numpy broadcasting of an array of length 1
Differences(tail, forecast) ==
    [i \in DOMAIN forecast |->
        (IF Len(tail) = 1 THEN tail[1] ELSE tail[i]) - forecast[i]]

\* the metrics of lines 193-194 from the compared history values
MetricsOf(tail, forecast) ==
    LET d == Differences(tail, forecast)
    IN  [mse |-> Mean([i \in DOMAIN d |-> d[i] * d[i]]),
         mae |-> Mean([i \in DOMAIN d |-> Abs(d[i])])]

\* perform_forecast(df, forecast_periods) with the library's outcome lib: what
\* it returns or raises, and the locals it reached
PerformForecast(df, h, lib) ==
    IF lib.fit = "raise"
    THEN FcRaised("ValueError", "the model could not be fitted", NoFrame)
    ELSE IF h <= 0
    THEN FcRaised("ValueError", "Prediction must have end after start", NoFrame)
    ELSE LET n      == Len(df.sales)
             fdates == ForecastDates(df.date[n], h)
             fvals  == SubSeq(lib.forecast, 1, h)
             tail   == IlocLast(df.sales, h)
             frame  == [reached |-> "metrics", forecast_dates |-> fdates,
                        forecast |-> lib.forecast, tail |-> tail]
         IN  IF Len(tail) # Len(fvals) /\ Len(tail) # 1
             THEN FcRaised("ValueError", "operands could not be broadcast together",
                           frame)
             ELSE [status |-> "returned", chart |-> "png",
                   metrics |-> MetricsOf(tail, fvals), frame |-> frame]

RECURSIVE Ramp(_, _, _)
\* n values from the level by steps
Ramp(level, step, n) ==
    IF n <= 0 THEN << >> ELSE <<level>> \o Ramp(level + step, step, n - 1)

MaxHistory == 8

\* the historical tables of the forecast calls: date-ascending daily series,
\* rising, flat or falling
Histories ==
    {[date |-> DateRange(start, n), sales |-> Ramp(level, step, n)] :
        start \in {Date(2023, 12, 27), Date(2024, 2, 26)},
        n \in 0..MaxHistory,
        level \in {120000, 100555},
        step \in {1500, 0, -777}}

InitForecast ==
    /\ rng \in {0}
    /\ fs = [p \in Paths |-> NoFile]
    /\ call \in [fn : {"perform_forecast"}, df : Histories,
                 forecast_periods : -1..MaxHorizon]
    /\ ret = NoRet
    /\ pc = Idle
    /\ local = NoLocals
    /\ resp = NoResp
    /\ nreq = 0
    /\ saved = NoLast

CallPerformForecast ==
    /\ call.fn = "perform_forecast"
    /\ ret = NoRet
    /\ \E lib \in ArimaOutcomes(call.df.sales, call.forecast_periods) :
          ret' = PerformForecast(call.df, call.forecast_periods, lib)
    /\ UNCHANGED <<rng, fs, call>>
    /\ UNCHANGED webvars

NextForecast == CallPerformForecast

SpecForecast == InitForecast /\ [][NextForecast]_vars

----------------------------------------------------------------------------
(* The Flask routes /generate_dataset and /forecast, one thread per request *)

\* jsonify({'status': 'error', 'message': str(e)}); request is the request the
\* response answers
ErrorResponse(msg, request) ==
    [status |-> "error", message |-> msg, request |-> request]

\* the forms posted to /generate_dataset: short series of small spread (the
\* squared differences of the metrics stay within 32-bit integers)
WebConfigs ==
    [start_date : {Date(2023, 1, 2)}, periods : {-1, 0, 2, 3},
     seasonality : {"weekly"}, trend_strength : {20}, noise_level : {0, 10}]

WebHorizons == {-1, 0, 1, 3}

InitWeb ==
    /\ rng = 0
    /\ fs = [p \in Paths |-> NoFile]
    /\ call = NoCall
    /\ ret = NoRet
    /\ pc = Idle
    /\ local = NoLocals
    /\ resp = NoResp
    /\ nreq = 0
    /\ saved = NoLast

\* generate_dataset, lines 25-34 and the except of line 50: the form is read and
\* generate_time_series_data runs on the global random state
GenerateDatasetCall(c, cfg) ==
    /\ pc[c] = "idle"
    /\ nreq < MaxRequests
    /\ nreq' = nreq + 1
    /\ LET r   == GenerateTimeSeriesData(cfg, rng)
           req == [op |-> "generate", periods |-> cfg.periods]
       IN  /\ rng' = r.rng
           /\ IF r.status = "raised"
              THEN /\ resp' = [resp EXCEPT ![c] = ErrorResponse(r.message, req)]
                   /\ UNCHANGED <<pc, local>>
              ELSE /\ pc' = [pc EXCEPT ![c] = "save"]
                   /\ local' = [local EXCEPT ![c] =
                                   [op |-> "generate", df |-> r.df, request |-> req]]
                   /\ UNCHANGED resp
    /\ UNCHANGED <<fs, call, ret, saved>>

\* generate_dataset, lines 36-49: the table goes to uploads/sales_data.csv and
\* the success response is sent
GenerateDatasetSave(c) ==
    /\ pc[c] = "save"
    /\ fs' = [fs EXCEPT ![UploadPath] = ToCsv(local[c].df)]
    /\ saved' = [saved EXCEPT ![c] = ToCsv(local[c].df)]
    /\ resp' = [resp EXCEPT ![c] =
                  [status |-> "success", message |-> "Dataset generated successfully!",
                   file_path |-> UploadPath, preview |-> "png",
                   row_count |-> Len(local[c].df.sales),
                   request |-> local[c].request]]
    /\ pc' = [pc EXCEPT ![c] = "idle"]
    /\ local' = [local EXCEPT ![c] = [op |-> "none"]]
    /\ UNCHANGED <<rng, call, ret, nreq>>

\* forecast, lines 63-74: the file is looked for and read, the form is read
ForecastRead(c, h) ==
    /\ pc[c] = "idle"
    /\ nreq < MaxRequests
    /\ nreq' = nreq + 1
    /\ LET req == [op |-> "forecast", forecast_periods |-> h]
       IN  IF fs[UploadPath] = NoFile
           THEN /\ resp' = [resp EXCEPT ![c] =
                   ErrorResponse("No dataset found. Please generate one first.", req)]
                /\ UNCHANGED <<pc, local>>
           ELSE /\ pc' = [pc EXCEPT ![c] = "fit"]
                /\ local' = [local EXCEPT ![c] =
                                [op |-> "forecast", df |-> ReadCsv(fs[UploadPath]),
                                 forecast_periods |-> h, request |-> req]]
                /\ UNCHANGED resp
    /\ UNCHANGED <<rng, fs, call, ret, saved>>

\* forecast, lines 76-85: perform_forecast runs and the response is sent
ForecastRespond(c) ==
    /\ pc[c] = "fit"
    /\ \E lib \in ArimaOutcomes(local[c].df.sales, local[c].forecast_periods) :
          LET r == PerformForecast(local[c].df, local[c].forecast_periods, lib)
          IN  resp' = [resp EXCEPT ![c] =
                  IF r.status = "raised"
                  THEN ErrorResponse(r.message, local[c].request)
                  ELSE [status |-> "success", forecast_chart |-> r.chart,
                        metrics |-> r.metrics, request |-> local[c].request]]
    /\ pc' = [pc EXCEPT ![c] = "idle"]
    /\ local' = [local EXCEPT ![c] = [op |-> "none"]]
    /\ UNCHANGED <<rng, fs, call, ret, nreq, saved>>

NextWeb ==
    \/ \E c \in Slots : \E cfg \in WebConfigs : GenerateDatasetCall(c, cfg)
    \/ \E c \in Slots : GenerateDatasetSave(c)
    \/ \E c \in Slots : \E h \in WebHorizons : ForecastRead(c, h)
    \/ \E c \in Slots : ForecastRespond(c)

SpecWeb == InitWeb /\ [][NextWeb]_vars

----------------------------------------------------------------------------
(* Properties of the generator (specification Spec) *)

\* a configuration the data model calls valid, and the call has returned
GenReturned ==
    /\ ret.status = "returned"
    /\ ValidDate(call.cfg.start_date)
    /\ call.cfg.periods >= 1
    /\ call.cfg.noise_level >= 0

GenFinishedValid ==
    /\ ret # NoRet
    /\ ValidDate(call.cfg.start_date)
    /\ call.cfg.periods >= 1
    /\ call.cfg.noise_level >= 0

EventSet == {ret.frame.special_events[j] : j \in DOMAIN ret.frame.special_events}

\* C1: for every valid configuration the returned primary series has exactly
\* period_count rows, its dates are the period_count consecutive calendar days
\* from start_date on (ascending, no duplicates), and every sales value is >= 0.
C1_ShapeAndNonNegative ==
    GenFinishedValid =>
        /\ ret.status = "returned"
        /\ Len(ret.df.date) = call.cfg.periods
        /\ Len(ret.df.sales) = call.cfg.periods
        /\ ret.df.date[1] = call.cfg.start_date
        /\ \A i \in 1..call.cfg.periods :
              /\ ValidDate(ret.df.date[i])
              /\ DaysFromCivil(ret.df.date[i])
                   = DaysFromCivil(call.cfg.start_date) + i - 1
              /\ ret.df.sales[i] >= 0

\* C1 witness: a long series crossing a month end in which the floor at 0 acted
\* on a negative composition and an event multiplied a day.
C1_Witness ==
    /\ GenReturned
    /\ call.cfg.periods >= 20
    /\ \E i \in 1..call.cfg.periods :
          /\ ret.frame.trend[i] + ret.frame.seasonal[i] + ret.frame.noise[i] < 0
          /\ ret.df.sales[i] = 0
    /\ \E i \in 1..call.cfg.periods : ret.frame.sales[i] > ret.frame.floored[i]
    /\ \E i \in 1..(call.cfg.periods - 1) : ret.df.date[i].m # ret.df.date[i + 1].m

\* Python's round(period_count * 0.05): to the nearest integer, halves to even
RoundedFivePercent(p) ==
    LET q == (p * 5) \div 100
        r == (p * 5) % 100
    IN  IF r < 50 THEN q ELSE IF r > 50 THEN q + 1 ELSE IF q % 2 = 0 THEN q ELSE q + 1

\* the days an event multiplied: distinct labels inside the series, each value
\* the floored value times its factor in [1.2, 1.5], every other day untouched
EventsWellFormed(count) ==
    /\ Len(ret.frame.special_events) = count
    /\ Cardinality(EventSet) = count
    /\ EventSet \subseteq 0..(call.cfg.periods - 1)
    /\ \A i \in 1..call.cfg.periods :
          IF (i - 1) \in EventSet
          THEN \E j \in DOMAIN ret.frame.special_events :
                  /\ ret.frame.special_events[j] = i - 1
                  /\ ret.frame.factors[j] \in 1200..1500
                  /\ ret.frame.sales[i]
                       = (ret.frame.floored[i] * ret.frame.factors[j]) \div 1000
          ELSE ret.frame.sales[i] = ret.frame.floored[i]

\* C2 as stated: event injection multiplies exactly round(period_count * 0.05)
\* distinct days; for period_count = 14 exactly 1 day.
C2_OriginalRoundedCount ==
    GenReturned =>
        /\ EventsWellFormed(RoundedFivePercent(call.cfg.periods))
        /\ call.cfg.periods = 14 => Cardinality(EventSet) = 1

\* C2 amended: event injection multiplies exactly int(period_count * 0.05), that
\* is floor(period_count / 20), distinct days (no index twice); for
\* period_count = 14 no day is multiplied.
C2_TruncatedCount ==
    GenReturned =>
        /\ EventsWellFormed(call.cfg.periods \div 20)
        /\ call.cfg.periods = 14 => EventSet = {}

\* C2 witness: two different days of one series were multiplied.
C2_Witness ==
    /\ GenReturned
    /\ Cardinality(EventSet) = 2
    /\ Cardinality({i \in 1..call.cfg.periods :
                       ret.frame.sales[i] > ret.frame.floored[i]}) = 2

\* the weekday of a date counted from Sunday 2023-01-01: 0 Sunday ... 6 Saturday
WeekdayFromSunday(dt) == (DaysFromCivil(dt) - DaysFromCivil(Date(2023, 1, 1))) % 7

StatedWeeklyBonus(dt) ==
    CASE WeekdayFromSunday(dt) = 5 -> 20000
      [] WeekdayFromSunday(dt) = 6 -> 30000
      [] WeekdayFromSunday(dt) = 0 -> 40000
      [] OTHER -> 0

\* C7: with weekly seasonality the bonus of a day depends only on its weekday
\* (Friday 20, Saturday 30, Sunday 40, else 0); with noise_level = 0 and no
\* event on the day, value = trend + bonus; from 2023-01-01 over 14 days the
\* Saturday is 30 and the Sundays 40 above the trend.
C7_WeeklyBonus ==
    (GenReturned /\ call.cfg.seasonality = "weekly") =>
        /\ \A i \in 1..call.cfg.periods :
              /\ ret.frame.seasonal[i] = StatedWeeklyBonus(ret.df.date[i])
              /\ (/\ call.cfg.noise_level = 0
                  /\ call.cfg.trend_strength \in 0..1000
                  /\ (i - 1) \notin EventSet)
                 => ret.frame.sales[i]
                      = ret.frame.trend[i] + StatedWeeklyBonus(ret.df.date[i])
        /\ (/\ call.cfg.start_date = Date(2023, 1, 1)
            /\ call.cfg.periods = 14
            /\ call.cfg.noise_level = 0)
           => /\ ret.frame.sales[7] = ret.frame.trend[7] + 30000
              /\ ret.frame.sales[1] = ret.frame.trend[1] + 40000
              /\ ret.frame.sales[8] = ret.frame.trend[8] + 40000
              /\ ret.frame.sales[6] = ret.frame.trend[6] + 20000
              /\ ret.frame.sales[2] = ret.frame.trend[2]

\* C7 witness: the 14 days from 2023-01-01, weekly, no noise, have returned.
C7_Witness ==
    /\ GenReturned
    /\ call.cfg.seasonality = "weekly"
    /\ call.cfg.start_date = Date(2023, 1, 1)
    /\ call.cfg.periods = 14
    /\ call.cfg.noise_level = 0
    /\ call.cfg.trend_strength = 500
    /\ ret.frame.sales[7] = 100000 + 23076 + 30000

\* C8: every one of the four category series of generate_sales_data has the
\* length of the primary series and only values >= 0.
C8_CategoriesShape ==
    (GenReturned /\ call.fn = "generate_sales_data") =>
        /\ Len(ret.df.category) = 4
        /\ \A c \in 1..4 :
              /\ Len(ret.df.category[c]) = call.cfg.periods
              /\ Len(ret.df.category[c]) = Len(ret.df.sales)
              /\ Len(ret.df.category[c]) = Len(ret.df.date)
              /\ ret.cats[c].trend_scale \in 600..1400
              /\ ret.cats[c].seasonal_scale \in 800..1200
              /\ \A i \in 1..call.cfg.periods : ret.df.category[c][i] >= 0

\* C8 witness: a category value whose scaled trend + seasonal + noise was
\* negative and stands at 0.
C8_Witness ==
    /\ GenReturned
    /\ call.fn = "generate_sales_data"
    /\ \E c \in 1..4 : \E i \in 1..call.cfg.periods :
          /\ (ret.frame.trend[i] * ret.cats[c].trend_scale) \div 1000
               + (ret.frame.seasonal[i] * ret.cats[c].seasonal_scale) \div 1000
               + ret.cats[c].noise[i] < 0
          /\ ret.df.category[c][i] = 0

\* v is x rounded to a hundredth
IsRounded2(v, x) == v % 10 = 0 /\ v - x <= 5 /\ x - v <= 5

\* C10: each category is computed from the unscaled trend and seasonal arrays
\* and its own noise only (never from the composed or event-multiplied primary
\* values), and after the four categories the sales column holds its values of
\* after the event injection, rounded to two decimals.
C10_CategoriesLeavePrimary ==
    (GenReturned /\ call.fn = "generate_sales_data") =>
        /\ \A i \in 1..call.cfg.periods :
              IsRounded2(ret.df.sales[i], ret.frame.sales[i])
        /\ \A c \in 1..4 : \A i \in 1..call.cfg.periods :
              IsRounded2(ret.df.category[c][i],
                         Max(0, (ret.frame.trend[i] * ret.cats[c].trend_scale) \div 1000
                                + (ret.frame.seasonal[i] * ret.cats[c].seasonal_scale)
                                    \div 1000
                                + ret.cats[c].noise[i]))

\* C10 witness: a table with categories whose primary series carries an event
\* and whose sales column was changed by the rounding.
C10_Witness ==
    /\ GenReturned
    /\ call.fn = "generate_sales_data"
    /\ \E i \in 1..call.cfg.periods :
          /\ ret.frame.sales[i] > ret.frame.floored[i]
          /\ ret.df.sales[i] # ret.frame.sales[i]
          /\ \E c \in 1..4 : ret.df.category[c][i] > 0

----------------------------------------------------------------------------
(* Properties of the forecaster (specification SpecForecast) *)

\* the call got past the fit and the forecast of a horizon >= 1
ForecastMade ==
    /\ ret # NoRet
    /\ call.forecast_periods >= 1
    /\ ret.frame.reached = "metrics"

\* C5: for every date-ascending history and horizon >= 1 the forecast dates are
\* exactly horizon dates, the consecutive calendar days right after the last
\* historical date, and there are as many forecast values.
C5_ForecastDates ==
    ForecastMade =>
        LET h    == call.forecast_periods
            last == call.df.date[Len(call.df.date)]
        IN  /\ Len(ret.frame.forecast_dates) = h
            /\ Len(ret.frame.forecast) = h
            /\ \A i \in 1..h :
                  /\ ValidDate(ret.frame.forecast_dates[i])
                  /\ DaysFromCivil(ret.frame.forecast_dates[i])
                       = DaysFromCivil(last) + i

\* C5 witness: a forecast of several days whose dates run over the end of a year.
C5_Witness ==
    /\ ForecastMade
    /\ ret.status = "returned"
    /\ call.forecast_periods >= 3
    /\ call.df.date[Len(call.df.date)].y = 2023
    /\ ret.frame.forecast_dates[call.forecast_periods].y = 2024

RECURSIVE SumOver(_, _, _, _)
\* the sum over i = 1..k of (a[off + i] - b[i])^2 or of |a[off + i] - b[i]|
SumOver(a, b, k, squared) ==
    IF k = 0 THEN 0
    ELSE LET d == a[Len(a) - Len(b) + k] - b[k]
         IN  (IF squared THEN d * d ELSE Abs(d)) + SumOver(a, b, k - 1, squared)

\* the metrics are those of the i-th forecast value against the i-th of the
\* last horizon historical values, over exactly horizon pairs
PairsLastHorizon ==
    LET h == call.forecast_periods
    IN  /\ ret.status = "returned"
        /\ Len(call.df.sales) >= h
        /\ ret.metrics.mse.den = h
        /\ ret.metrics.mae.den = h
        /\ ret.metrics.mse.num = SumOver(call.df.sales, ret.frame.forecast, h, TRUE)
        /\ ret.metrics.mae.num = SumOver(call.df.sales, ret.frame.forecast, h, FALSE)
        /\ ret.metrics.mse.num >= 0
        /\ ret.metrics.mae.num >= 0
        /\ (ret.metrics.mse.num = 0) <=>
              (\A i \in 1..h :
                  ret.frame.forecast[i] = call.df.sales[Len(call.df.sales) - h + i])
        /\ (ret.metrics.mae.num = 0) <=> (ret.metrics.mse.num = 0)

----------------------------------------------------------------------------
(* Properties of the routes (specification SpecWeb) *)

\* C3 as stated: a forecast of horizon 0 or less over a history (one the model
\* can be fitted to) fails with an InvalidConfiguration error, a kind beside the
\* message, and never with a result.
C3_NonPositiveHorizonKind ==
    \A c \in Slots :
        (/\ resp[c].status # "none"
         /\ resp[c].request.op = "forecast"
         /\ resp[c].request.forecast_periods <= 0
         /\ resp[c].message # "No dataset found. Please generate one first."
         /\ resp[c].message # "the model could not be fitted")
        => /\ resp[c].status = "error"
           /\ "kind" \in DOMAIN resp[c]
           /\ resp[c].kind = "InvalidConfiguration"

\* C4 as stated, its core: a generate request with period_count 0 or less fails;
\* it is never answered with a success over a table of 0 rows.
C4_NonPositivePeriodsFail ==
    \A c \in Slots :
        (/\ resp[c].status # "none"
         /\ resp[c].request.op = "generate"
         /\ resp[c].request.periods <= 0)
        => /\ resp[c].status = "error"
           /\ ~(resp[c].status = "success" /\ resp[c].row_count = 0)

\* C9 as stated: requests share no mutable state; a forecast works on the
\* history (one or more rows) its own requester produced, whatever other
\* requests are interleaved, and never on data another requester wrote.
C9_NoCrossTalk ==
    \A c \in Slots :
        (/\ local[c].op = "forecast"
         /\ saved[c] # NoFile
         /\ Len(saved[c].sales) >= 1)
        => local[c].df = ReadCsv(saved[c])

====
